---------------------------- MODULE Spec2Model ----------------------------
(***************************************************************************)
(* x402-bazaar-cli: the HTTP-402 payment retry protocol in its two         *)
(* variants.                                                               *)
(*                                                                         *)
(*   variant = "server": the MCP server file that `init` generates         *)
(*     (src/src/commands/init.js, generateMcpServerFile).  One long-lived  *)
(*     Node process; every paid tool call runs payAndRequest, an async     *)
(*     function.  Node runs one continuation at a time, so each action     *)
(*     below is the code between two awaits of one invocation, and the     *)
(*     invocations in flight interleave at their awaits.                   *)
(*                                                                         *)
(*   variant = "cli": one run of `x402-bazaar call`                        *)
(*     (src/src/commands/call.js, callCommand / handleAutoPayment, with    *)
(*     sendUsdcPayment of lib/payment.js).                                 *)
(*                                                                         *)
(* Amounts are JavaScript numbers.  A number is modelled as a record       *)
(* [k, v]: k = "num" with an integer v (a count of the smallest amount     *)
(* the marketplace charges), or k in {"nan", "inf", "ninf"}.  Rounding of  *)
(* binary floating point is outside the model.                             *)
(***************************************************************************)
EXTENDS Integers, Sequences, FiniteSets, Bags, TLC

\* ------------------------------------------------------------------ bounds
\* Tool calls the server receives in one process lifetime; any number of
\* them may be in flight at once.
MaxInvocations == 2

\* --------------------------------------------------------- JS numbers
Num(n) == [k |-> "num", v |-> n]
NaN == [k |-> "nan", v |-> 0]
PosInf == [k |-> "inf", v |-> 0]
NegInf == [k |-> "ninf", v |-> 0]

IsFinite(a) == a.k = "num"

\* a + b of IEEE-754, on the values above.
FAdd(a, b) ==
  IF a.k = "nan" \/ b.k = "nan" THEN NaN
  ELSE IF a.k = "num" /\ b.k = "num" THEN Num(a.v + b.v)
  ELSE IF a.k = "num" THEN b
  ELSE IF b.k = "num" THEN a
  ELSE IF a.k = b.k THEN a
  ELSE NaN

\* a > b of JavaScript: false whenever an operand is NaN.
FGt(a, b) ==
  IF a.k = "nan" \/ b.k = "nan" THEN FALSE
  ELSE IF a.k = "num" /\ b.k = "num" THEN a.v > b.v
  ELSE IF a.k = "inf" THEN b.k # "inf"
  ELSE IF a.k = "ninf" THEN FALSE
  ELSE b.k = "ninf"

\* a <= b of JavaScript: false whenever an operand is NaN.
FLe(a, b) ==
  IF a.k = "nan" \/ b.k = "nan" THEN FALSE
  ELSE ~FGt(a, b)

\* a < b of JavaScript.
FLt(a, b) == FGt(b, a)

\* ------------------------------------------------------------ strings
\* An amount string is a sequence of tokens: a digit, "-", the word
\* "Infinity", a character that is none of these ("x"), or the word
\* "undefined" (what String(undefined) gives when the field is missing).
Digits == {"0", "1", "2"}
DigitValue(d) == IF d = "0" THEN 0 ELSE IF d = "1" THEN 1 ELSE 2

Undef == <<"undefined">>

\* The value of the longest prefix of s, from position i, made of digits.
RECURSIVE DigitRun(_, _, _)
DigitRun(s, i, acc) ==
  IF i > Len(s) \/ s[i] \notin Digits THEN acc
  ELSE DigitRun(s, i + 1, 10 * acc + DigitValue(s[i]))

\* parseFloat: an optional sign, then "Infinity" or a run of digits; what
\* follows is ignored; NaN when neither is there.
ParseFloat(s) ==
  LET neg == Len(s) >= 1 /\ s[1] = "-"
      i == IF neg THEN 2 ELSE 1
  IN IF i > Len(s) THEN NaN
     ELSE IF s[i] = "Infinity" THEN (IF neg THEN NegInf ELSE PosInf)
     ELSE IF s[i] \in Digits
          THEN Num(IF neg THEN 0 - DigitRun(s, i, 0) ELSE DigitRun(s, i, 0))
          ELSE NaN

\* The amount strings a marketplace answer may carry.
AmountStrings ==
  {<<"1">>, <<"-", "1">>, <<"x">>, <<"Infinity">>}

\* A recipient address; "" stands for a missing field.
Recipient == "0xRecipient"
NoAddr == ""

\* A JavaScript value used as a condition.
TruthyAmount(s) == s # Undef /\ s # <<>>
TruthyAddr(a) == a # NoAddr

\* ------------------------------------------------------- HTTP answers
Statuses == {200, 402, 500}

\* The body of an answer.  json: whether it parses as JSON; isObject: whether
\* the parsed value has members to read (null has none); hasPd: whether it
\* holds a payment_details object; the other fields are the members a
\* challenge may carry, Undef / NoAddr when missing.
Body(json, hasPd, pdAmount, pdRecipient, pdWallet, amount, recipient, price, payAddr) ==
  [json |-> json, isObject |-> json, hasPd |-> hasPd, pdAmount |-> pdAmount,
   pdRecipient |-> pdRecipient, pdWallet |-> pdWallet, amount |-> amount,
   recipient |-> recipient, price |-> price, paymentAddress |-> payAddr]

NestedBody(a, r) == Body(TRUE, TRUE, a, r, NoAddr, Undef, NoAddr, Undef, NoAddr)
TopLevelBody(a, r) == Body(TRUE, FALSE, Undef, NoAddr, NoAddr, a, r, Undef, NoAddr)
PriceBody(a, r) == Body(TRUE, FALSE, Undef, NoAddr, NoAddr, Undef, NoAddr, a, r)
WalletAddressBody(a, r) == Body(TRUE, TRUE, a, NoAddr, r, Undef, NoAddr, Undef, NoAddr)
EmptyBody == Body(TRUE, FALSE, Undef, NoAddr, NoAddr, Undef, NoAddr, Undef, NoAddr)
BadJson == Body(FALSE, FALSE, Undef, NoAddr, NoAddr, Undef, NoAddr, Undef, NoAddr)
NullBody == [EmptyBody EXCEPT !.isObject = FALSE]

\* The bodies a 402 answer may carry.
Bodies402 ==
  {NestedBody(a, Recipient) : a \in AmountStrings}
    \cup {NestedBody(<<"1">>, NoAddr), NestedBody(Undef, Recipient),
          TopLevelBody(<<"1">>, Recipient), PriceBody(<<"1">>, Recipient),
          WalletAddressBody(<<"1">>, Recipient), EmptyBody, NullBody,
          BadJson}

\* The bodies of the other answers.
BodiesOther == {EmptyBody, BadJson, NestedBody(<<"1">>, Recipient)}


\* ----------------------------------------------------------- requests
\* What fetch is given: the URL and the options' method and headers (pairs
\* of a name and a value).
Request(url, method, headers) ==
  [url |-> url, method |-> method, headers |-> headers]

NoRequest == Request("", "", {})

\* payAndRequest(url) as the tools call it: no options.
ServerRequest == Request("url", "GET", {})

\* callCommand's fetchOptions.
CliRequest ==
  Request("finalUrl", "GET", {<<"Content-Type", "application/json">>})

\* A slip: the request is sent again as it was.
RetryRequest_NoProof(req, txHash) == req

\* fetch(url, {...options, headers: {...options.headers,
\*                                   'X-Payment-TxHash': txHash}})
RetryRequest(req, txHash) ==
  [req EXCEPT !.headers =
     {h \in @ : h[1] # "X-Payment-TxHash"} \cup {<<"X-Payment-TxHash", txHash>>}]

\* -------------------------------------------------------------- state
VARIABLES
  variant,          \* "server" or "cli": which program this process runs
  MAX_BUDGET,       \* server: the session limit, read once at start-up
  sessionSpending,  \* server: the running total
  sessionPayments,  \* server: the ledger
  walletReady,      \* server: initWallet has completed once
  calls,            \* server: the payAndRequest invocations in flight (a bag)
  started,          \* server: tool calls received so far
  chainTx,          \* transfers whose hash the program got (the last hash)
  cli,              \* cli: the call command's run
  cmd               \* the run of another command or function (see below)

vars ==
  <<variant, MAX_BUDGET, sessionSpending, sessionPayments, walletReady,
    calls, started, chainTx, cli, cmd>>

\* --------------------------------------------------------- the server
\* MAX_BUDGET_USDC as the client configuration passes it: "1" is what init
\* writes for its default --budget; <<>> is unset or empty, and the template
\* then reads "1.00".
BudgetEnv == {<<>>, <<"1">>}
DefaultBudget == <<"1">>

\* const MAX_BUDGET = parseFloat(process.env.MAX_BUDGET_USDC || '1.00')
MaxBudgetOf(env) == ParseFloat(IF env # <<>> THEN env ELSE DefaultBudget)

\* What a tool call gave back: the kind of result, the handler's isError,
\* and the amount and limit an error message quotes.
Outcome(kind, isError, amount, limit) ==
  [kind |-> kind, isError |-> isError, amount |-> amount, limit |-> limit]

NoOutcome == Outcome("none", FALSE, NaN, NaN)

\* One invocation: where it is (pc), its locals (status, details.amount,
\* details.recipient, txHash, the retried answer's status) and a history of
\* what it did (requests issued, the request sent again, createTransfer
\* calls, ledger writes) and of how its transfer ended on the chain
\* (txFailed).
NewCall ==
  [pc |-> "fetch", status |-> 0, amount |-> Undef,
   recipient |-> NoAddr, txHash |-> 0, txFailed |-> FALSE, retryStatus |-> 0,
   requests |-> 1, retried |-> NoRequest, payCalls |-> 0, recorded |-> 0,
   outcome |-> NoOutcome]

\* const cost = parseFloat(details.amount)
CostOf(c) == ParseFloat(c.amount)

\* The invocations in flight.
InFlight == BagToSet(calls)

\* Invocation c moves on as d.
Becomes(c, d) == calls' = (calls (-) SetToBag({c})) (+) SetToBag({d})

\* The handler's catch block: the error becomes a result with isError set.
Caught(c, kind) ==
  [c EXCEPT !.pc = "done",
            !.outcome = Outcome(kind, TRUE, CostOf(c), MAX_BUDGET)]

\* The handler's return of what payAndRequest gave.
Returned(c, kind) ==
  [c EXCEPT !.pc = "done",
            !.outcome = Outcome(kind, FALSE, CostOf(c), MAX_BUDGET)]

\* A slip: every answer that is not a success is taken for a challenge.
IsPaymentRequired_AnyError(status) == status # 200

\* if (res.status !== 402) return body  /  if (res.status === 402) {...}
IsPaymentRequired(status) == status = 402

\* if (sessionSpending + cost > MAX_BUDGET) throw
BudgetExceeded(spent, cost, limit) == FGt(FAdd(spent, cost), limit)

\* A paid tool (search_services, list_services, find_tool_for_task) is
\* called: its handler calls payAndRequest, which issues the request and
\* awaits the answer.
ToolCall ==
  /\ variant = "server"
  /\ started < MaxInvocations
  /\ calls' = calls (+) SetToBag({NewCall})
  /\ started' = started + 1
  /\ UNCHANGED <<variant, cmd, MAX_BUDGET, sessionSpending, sessionPayments,
                 walletReady, chainTx, cli>>

\* const res = await fetch(url, options): the answer arrives or fetch rejects.
FetchSettle(c) ==
  /\ variant = "server"
  /\ c.pc = "fetch"
  /\ \/ Becomes(c, Caught(c, "fetch_failed"))
     \/ \E st \in Statuses : Becomes(c, [c EXCEPT !.pc = "json", !.status = st])
  /\ UNCHANGED <<variant, cmd, MAX_BUDGET, sessionSpending, sessionPayments,
                 walletReady, started, chainTx, cli>>

\* The 402 branch up to the first await of initWallet: the challenge is read
\* from body.payment_details (a TypeError when there is none), the budget is
\* checked, initWallet is entered.
Challenge(c, body) ==
  IF ~body.isObject \/ ~body.hasPd
  THEN Caught(c, "type_error")
  ELSE LET d == [c EXCEPT !.amount = body.pdAmount,
                          !.recipient = body.pdRecipient]
       IN IF BudgetExceeded(sessionSpending, CostOf(d), MAX_BUDGET)
          THEN Caught(d, "budget_exceeded")
          ELSE [d EXCEPT !.pc = IF walletReady THEN "init_return"
                                ELSE "init_import"]

\* const body = await res.json(); a status other than 402 returns the body.
JsonSettle(c) ==
  /\ variant = "server"
  /\ c.pc = "json"
  /\ \E body \in (IF c.status = 402 THEN Bodies402 ELSE BodiesOther) :
       IF ~body.json THEN Becomes(c, Caught(c, "bad_json"))
       ELSE IF ~IsPaymentRequired(c.status)
       THEN Becomes(c, Returned(c, "passthrough"))
       ELSE Becomes(c, Challenge(c, body))
  /\ UNCHANGED <<variant, cmd, MAX_BUDGET, sessionSpending, sessionPayments,
                 walletReady, started, chainTx, cli>>

\* initWallet: const fs = await import('fs'), then the seed file is read
\* and parsed (either may throw) and Wallet.fetch is called.
InitImport(c) ==
  /\ variant = "server"
  /\ c.pc = "init_import"
  /\ \/ Becomes(c, Caught(c, "wallet_init_failed"))
     \/ Becomes(c, [c EXCEPT !.pc = "init_fetch"])
  /\ UNCHANGED <<variant, cmd, MAX_BUDGET, sessionSpending, sessionPayments,
                 walletReady, started, chainTx, cli>>

\* initWallet: wallet = await Wallet.fetch(seedWalletId).
InitFetch(c) ==
  /\ variant = "server"
  /\ c.pc = "init_fetch"
  /\ \/ Becomes(c, Caught(c, "wallet_init_failed"))
     \/ Becomes(c, [c EXCEPT !.pc = "init_load"])
  /\ UNCHANGED <<variant, cmd, MAX_BUDGET, sessionSpending, sessionPayments,
                 walletReady, started, chainTx, cli>>

\* initWallet: await wallet.loadSeed(seedPath); walletReady = true.
InitLoad(c) ==
  /\ variant = "server"
  /\ c.pc = "init_load"
  /\ \/ /\ Becomes(c, Caught(c, "wallet_init_failed"))
        /\ UNCHANGED walletReady
     \/ /\ Becomes(c, [c EXCEPT !.pc = "init_return"])
        /\ walletReady' = TRUE
  /\ UNCHANGED <<variant, cmd, MAX_BUDGET, sessionSpending, sessionPayments,
                 started, chainTx, cli>>

\* await initWallet() resumes: wallet.createTransfer is called with the
\* challenge's amount and recipient.
InitReturn(c) ==
  /\ variant = "server"
  /\ c.pc = "init_return"
  /\ Becomes(c, [c EXCEPT !.pc = "transfer", !.payCalls = @ + 1])
  /\ UNCHANGED <<variant, cmd, MAX_BUDGET, sessionSpending, sessionPayments,
                 walletReady, started, chainTx, cli>>

\* const transfer = await wallet.createTransfer(...), then transfer.wait.
TransferSettle(c) ==
  /\ variant = "server"
  /\ c.pc = "transfer"
  /\ \/ Becomes(c, Caught(c, "payment_failed"))
     \/ Becomes(c, [c EXCEPT !.pc = "wait"])
  /\ UNCHANGED <<variant, cmd, MAX_BUDGET, sessionSpending, sessionPayments,
                 walletReady, started, chainTx, cli>>

\* sessionSpending += cost; sessionPayments.push({amount: cost, txHash,
\* timestamp, endpoint}).  The timestamp and the endpoint are left out.
Track(c, hash) ==
  /\ sessionSpending' = FAdd(sessionSpending, CostOf(c))
  /\ sessionPayments' = Append(sessionPayments,
       [amount |-> CostOf(c), txHash |-> hash])

\* const confirmed = await transfer.wait(...).  wait rejects on a timeout;
\* it resolves once the transfer is in a terminal state, complete or failed,
\* and the status is not looked at: the hash is read, the spending is
\* tracked and the request is issued again with the hash.
WaitSettle(c) ==
  /\ variant = "server"
  /\ c.pc = "wait"
  /\ \/ /\ Becomes(c, Caught(c, "payment_failed"))
        /\ UNCHANGED <<sessionSpending, sessionPayments, chainTx>>
     \/ /\ chainTx' = chainTx + 1
        /\ Track(c, chainTx')
        /\ \E failed \in BOOLEAN :
             Becomes(c, [c EXCEPT !.pc = "retry", !.txHash = chainTx',
                                 !.txFailed = failed,
                                 !.recorded = @ + 1, !.requests = @ + 1,
                                 !.retried =
                                    RetryRequest(ServerRequest, chainTx')])
  /\ UNCHANGED <<variant, cmd, MAX_BUDGET, walletReady, started, cli>>

\* const retryRes = await fetch(url, {...options, headers: retryHeaders}).
RetrySettle(c) ==
  /\ variant = "server"
  /\ c.pc = "retry"
  /\ \/ Becomes(c, Caught(c, "retry_failed"))
     \/ \E st \in Statuses :
          Becomes(c, [c EXCEPT !.pc = "retry_json", !.retryStatus = st])
  /\ UNCHANGED <<variant, cmd, MAX_BUDGET, sessionSpending, sessionPayments,
                 walletReady, started, chainTx, cli>>

\* A slip: a retried answer that is 402 again is paid again.
RetryJsonSettle_PayAgain(c) ==
  /\ variant = "server"
  /\ c.pc = "retry_json"
  /\ \/ Becomes(c, Caught(c, "bad_json"))
     \/ IF c.retryStatus = 402
        THEN Becomes(c, [c EXCEPT !.pc = "init_return"])
        ELSE Becomes(c, Returned(c, "result"))
  /\ UNCHANGED <<variant, cmd, MAX_BUDGET, sessionSpending, sessionPayments,
                 walletReady, started, chainTx, cli>>

\* const result = await retryRes.json(); result._payment = {...}; return
\* result.  The retried answer's status is not looked at.
RetryJsonSettle(c) ==
  /\ variant = "server"
  /\ c.pc = "retry_json"
  /\ \/ Becomes(c, Caught(c, "bad_json"))
     \/ Becomes(c, Returned(c, "result"))
  /\ UNCHANGED <<variant, cmd, MAX_BUDGET, sessionSpending, sessionPayments,
                 walletReady, started, chainTx, cli>>

\* The result has gone back to the client: the invocation is over.
Finish(c) ==
  /\ variant = "server"
  /\ c.pc = "done"
  /\ calls' = calls (-) SetToBag({c})
  /\ UNCHANGED <<variant, cmd, MAX_BUDGET, sessionSpending, sessionPayments,
                 walletReady, started, chainTx, cli>>

NextServer ==
  \/ ToolCall
  \/ \E c \in InFlight : FetchSettle(c)
  \/ \E c \in InFlight : JsonSettle(c)
  \/ \E c \in InFlight : InitImport(c)
  \/ \E c \in InFlight : InitFetch(c)
  \/ \E c \in InFlight : InitLoad(c)
  \/ \E c \in InFlight : InitReturn(c)
  \/ \E c \in InFlight : TransferSettle(c)
  \/ \E c \in InFlight : WaitSettle(c)
  \/ \E c \in InFlight : RetrySettle(c)
  \/ \E c \in InFlight : RetryJsonSettle(c)
  \/ \E c \in InFlight : Finish(c)

\* ------------------------------------------------------------ the cli
\* A key string as the user gives it: ws surrounding white space, pfx a
\* leading "0x", len the characters after the prefix, hex whether all of
\* them are hexadecimal digits; id tells the sources' keys apart.  NoKey is
\* an option, variable or field that is missing or empty.
KeyString(id, ws, pfx, len, hex) ==
  [id |-> id, ws |-> ws, pfx |-> pfx, len |-> len, hex |-> hex]

NoKey == KeyString("", FALSE, FALSE, 0, TRUE)

\* The length the key pattern asks for: /^0x[a-fA-F0-9]{64}$/.
KeyHexLen == 64

\* normalizeKey: trim, prefix "0x" when it is missing, test the pattern.
normalizeKey(key) ==
  LET k == [key EXCEPT !.ws = FALSE, !.pfx = TRUE]
  IN IF k.hex /\ k.len = KeyHexLen THEN k ELSE NoKey

\* The wallet file ~/.x402-bazaar/wallet.json: whether it exists, whether
\* it parses as JSON, whether its privateKey field is a string, and the
\* field (NoKey when it is missing or empty).
WalletFile(exists, json, privateKey) ==
  [exists |-> exists, json |-> json, isString |-> TRUE,
   privateKey |-> privateKey]

\* A wallet file whose privateKey field is the number 1.
NumberKeyFile ==
  [WalletFile(TRUE, TRUE, KeyString("file", FALSE, FALSE, 1, TRUE))
     EXCEPT !.isString = FALSE]

\* A slip: the wallet file's field is returned as it is read.
resolvePrivateKey_FileUnchecked(optKey, envKey, file) ==
  IF optKey # NoKey THEN normalizeKey(optKey)
  ELSE IF envKey # NoKey THEN normalizeKey(envKey)
  ELSE IF file.exists /\ file.json THEN file.privateKey
  ELSE NoKey

\* A slip: the environment's key is looked at before the option.
resolvePrivateKey_EnvFirst(optKey, envKey, file) ==
  IF envKey # NoKey THEN normalizeKey(envKey)
  ELSE IF optKey # NoKey THEN normalizeKey(optKey)
  ELSE IF file.exists /\ file.json /\ file.privateKey # NoKey
       THEN normalizeKey(file.privateKey)
       ELSE NoKey

\* resolvePrivateKey: --key, else X402_PRIVATE_KEY, else the wallet file.
\* Reading the file is inside a try whose catch ignores the error: a file
\* that does not parse, or a field that has no trim method, gives null.
resolvePrivateKey(optKey, envKey, file) ==
  IF optKey # NoKey THEN normalizeKey(optKey)
  ELSE IF envKey # NoKey THEN normalizeKey(envKey)
  ELSE IF file.exists /\ file.json /\ file.privateKey # NoKey
       THEN (IF file.isString THEN normalizeKey(file.privateKey) ELSE NoKey)
       ELSE NoKey

\* The keys and wallet files of the runs explored.
OptKeys ==
  {NoKey, KeyString("opt", TRUE, FALSE, 64, TRUE),
   KeyString("opt", FALSE, TRUE, 63, TRUE)}
EnvKeys ==
  {NoKey, KeyString("env", FALSE, TRUE, 64, TRUE),
   KeyString("env", FALSE, TRUE, 64, FALSE)}
WalletFiles ==
  {WalletFile(FALSE, FALSE, NoKey), WalletFile(TRUE, FALSE, NoKey),
   WalletFile(TRUE, TRUE, NoKey), NumberKeyFile,
   WalletFile(TRUE, TRUE, KeyString("file", FALSE, TRUE, 63, TRUE)),
   WalletFile(TRUE, TRUE, KeyString("file", FALSE, TRUE, 64, TRUE))}

\* The wallet's USDC balance, as balanceOf may report it.
Balances == {0, 1, 2}

\* parseUnits(value, 6) of viem: the value must match
\* /^(-?)([0-9]*)\.?([0-9]*)$/, or InvalidDecimalNumberError is thrown.
\* ok tells whether it parsed, v is the amount in units.
RECURSIVE AllDigits(_, _)
AllDigits(s, i) == i > Len(s) \/ (s[i] \in Digits /\ AllDigits(s, i + 1))

ParseUnits(s) ==
  LET neg == Len(s) >= 1 /\ s[1] = "-"
      i == IF neg THEN 2 ELSE 1
  IN IF AllDigits(s, i)
     THEN [ok |-> TRUE,
           v |-> IF neg THEN 0 - DigitRun(s, i, 0) ELSE DigitRun(s, i, 0)]
     ELSE [ok |-> FALSE, v |-> 0]

\* paymentInfo.payment_details?.amount || paymentInfo.price
PriceOf(body) ==
  IF body.hasPd /\ TruthyAmount(body.pdAmount) THEN body.pdAmount
  ELSE body.price

\* paymentInfo.payment_details?.recipient
\*   || paymentInfo.payment_details?.walletAddress
\*   || paymentInfo.paymentAddress
PayToOf(body) ==
  IF body.hasPd /\ TruthyAddr(body.pdRecipient) THEN body.pdRecipient
  ELSE IF body.hasPd /\ TruthyAddr(body.pdWallet) THEN body.pdWallet
  ELSE body.paymentAddress

\* The amounts an error message quotes: none.
NothingReported == [available |-> 0 - 1, required |-> Undef]

\* The run of the call command: its inputs (endpoint given, --key, the
\* environment's key, the wallet file, the wallet's balance on the chain),
\* its locals (privateKey, status, the 402 body, price, payTo, the payment's
\* hash, the retried answer's status), a history of what it did (requests,
\* sendUsdcPayment calls, transfers submitted, what was printed) and how it
\* ended (outcome: what the user is told; failedAt: the call that threw;
\* exitCode, -1 while it runs).
CliRun(endpoint, optKey, envKey, file, balance) ==
  [pc |-> "start", endpoint |-> endpoint, optKey |-> optKey, envKey |-> envKey,
   file |-> file, balance |-> balance, privateKey |-> NoKey, status |-> 0,
   body |-> EmptyBody, price |-> Undef, payTo |-> NoAddr, txHash |-> 0,
   txFailed |-> FALSE,
   retryStatus |-> 0, requests |-> 0, retried |-> NoRequest,
   payCalls |-> 0, transfers |-> 0,
   shownPrice |-> FALSE, shownPayTo |-> FALSE,
   reported |-> NothingReported, outcome |-> "none",
   failedAt |-> "none", exitCode |-> 0 - 1]

\* In the server's process no call command runs.
IdleCli == [pc |-> "off"]

\* The process ends: process.exit(code), or the command returns (code 0).
Exit(c, outcome, code) ==
  [c EXCEPT !.pc = "done", !.outcome = outcome, !.exitCode = code]

\* A call threw: the catch block around it tells the user and exits 1.
Throws(c, site, outcome) ==
  [c EXCEPT !.pc = "done", !.outcome = outcome, !.failedAt = site,
            !.exitCode = 1]

\* if (autoPay && price && payTo)
ShouldAutoPay(key, price, payTo) ==
  key # NoKey /\ TruthyAmount(price) /\ TruthyAddr(payTo)

\* callCommand up to its first request: the endpoint test, the key, the
\* request issued.
CallCommand ==
  /\ variant = "cli"
  /\ cli.pc = "start"
  /\ IF ~cli.endpoint
     THEN cli' = Exit(cli, "usage", 1)
     ELSE cli' = [cli EXCEPT
            !.privateKey = resolvePrivateKey(cli.optKey, cli.envKey, cli.file),
            !.pc = "fetch", !.requests = 1]
  /\ UNCHANGED <<variant, cmd, MAX_BUDGET, sessionSpending, sessionPayments,
                 walletReady, calls, started, chainTx>>

\* const res = await fetch(finalUrl, fetchOptions).  A rejection (timeout,
\* connection refused, any other) goes to the outer catch.  An answer that
\* is not 402 is shown: an error status exits 1, a success is displayed,
\* and a body that cannot be read goes to the outer catch.
CliFetchSettle ==
  /\ variant = "cli"
  /\ cli.pc = "fetch"
  /\ \/ cli' = Throws(cli, "fetch", "request_failed")
     \/ \E st \in Statuses :
          LET c == [cli EXCEPT !.status = st]
          IN IF IsPaymentRequired(st) THEN cli' = [c EXCEPT !.pc = "json"]
             ELSE IF st # 200 THEN cli' = Exit(c, "http_error", 1)
             ELSE \/ cli' = Exit(c, "success", 0)
                  \/ cli' = Throws(c, "display", "request_failed")
  /\ UNCHANGED <<variant, cmd, MAX_BUDGET, sessionSpending, sessionPayments,
                 walletReady, calls, started, chainTx>>

\* handleAutoPayment enters sendUsdcPayment: the amount is converted, which
\* may throw, and the balance is asked for.
SendUsdcPayment(c) ==
  IF ParseUnits(c.price).ok
  THEN [c EXCEPT !.pc = "balance", !.payCalls = @ + 1]
  ELSE Throws([c EXCEPT !.payCalls = @ + 1], "parseUnits", "payment_failed")

\* The 402 branch: paymentInfo = await res.json(); price and payTo are read
\* (a TypeError, for the outer catch, when paymentInfo is null) and shown;
\* with a key, a price and a recipient the payment starts,
\* otherwise the funding instructions are printed and the command returns.
CliJsonSettle ==
  /\ variant = "cli"
  /\ cli.pc = "json"
  /\ \E body \in Bodies402 :
       IF ~body.json
       THEN cli' = Exit([cli EXCEPT !.body = body], "malformed", 1)
       ELSE IF ~body.isObject
       THEN cli' = Throws([cli EXCEPT !.body = body], "challenge",
                          "request_failed")
       ELSE LET price == PriceOf(body)
                payTo == PayToOf(body)
                c == [cli EXCEPT !.body = body, !.price = price,
                                 !.payTo = payTo,
                                 !.shownPrice = TruthyAmount(price),
                                 !.shownPayTo = TruthyAddr(payTo)]
            IN IF ShouldAutoPay(cli.privateKey, price, payTo)
               THEN cli' = SendUsdcPayment(c)
               ELSE cli' = Exit(c, "no_funding", 0)
  /\ UNCHANGED <<variant, cmd, MAX_BUDGET, sessionSpending, sessionPayments,
                 walletReady, calls, started, chainTx>>

\* A slip: the balance is not compared with the amount.
InsufficientBalance_Never(balance, amount) == FALSE

\* if (balance < amount) throw new Error('Insufficient USDC balance: ...')
InsufficientBalance(balance, amount) == balance < amount

\* sendUsdcPayment: const balance = await publicClient.readContract(...);
\* a balance below the amount throws, otherwise the transfer is written.  A
\* negative amount does not encode as a uint256: writeContract throws
\* before anything is sent.
CliBalanceSettle ==
  /\ variant = "cli"
  /\ cli.pc = "balance"
  /\ \/ cli' = Throws(cli, "balanceOf", "payment_failed")
     \/ LET amount == ParseUnits(cli.price).v
        IN IF InsufficientBalance(cli.balance, amount)
           THEN cli' = Throws([cli EXCEPT !.reported =
                                 [available |-> cli.balance,
                                  required |-> cli.price]],
                              "insufficient", "payment_failed")
           ELSE IF amount < 0
           THEN cli' = Throws(cli, "transfer", "payment_failed")
           ELSE cli' = [cli EXCEPT !.pc = "write", !.transfers = @ + 1]
  /\ UNCHANGED <<variant, cmd, MAX_BUDGET, sessionSpending, sessionPayments,
                 walletReady, calls, started, chainTx>>

\* sendUsdcPayment: const txHash = await walletClient.writeContract(...).
CliWriteSettle ==
  /\ variant = "cli"
  /\ cli.pc = "write"
  /\ \/ /\ cli' = Throws(cli, "transfer", "payment_failed")
        /\ UNCHANGED chainTx
     \/ /\ chainTx' = chainTx + 1
        /\ cli' = [cli EXCEPT !.pc = "receipt", !.txHash = chainTx']
  /\ UNCHANGED <<variant, cmd, MAX_BUDGET, sessionSpending, sessionPayments,
                 walletReady, calls, started>>

\* sendUsdcPayment: await publicClient.waitForTransactionReceipt(...).  It
\* rejects on a timeout or a transport failure; it resolves with the
\* receipt of a transaction that succeeded or reverted, and the receipt is
\* not looked at: handleAutoPayment issues the request again with the hash.
CliReceiptSettle ==
  /\ variant = "cli"
  /\ cli.pc = "receipt"
  /\ \/ cli' = Throws(cli, "receipt", "payment_failed")
     \/ \E failed \in BOOLEAN :
          cli' = [cli EXCEPT !.pc = "retry", !.txFailed = failed,
                             !.requests = @ + 1,
                             !.retried = RetryRequest(CliRequest, cli.txHash)]
  /\ UNCHANGED <<variant, cmd, MAX_BUDGET, sessionSpending, sessionPayments,
                 walletReady, calls, started, chainTx>>

\* handleAutoPayment: const retryRes = await fetch(url, {...}).  An answer
\* that is not ok exits 1; a success is displayed; a rejection, or a body
\* that cannot be read, goes to handleAutoPayment's catch.
CliRetrySettle ==
  /\ variant = "cli"
  /\ cli.pc = "retry"
  /\ \/ cli' = Throws(cli, "retry", "payment_failed")
     \/ \E st \in Statuses :
          LET c == [cli EXCEPT !.retryStatus = st]
          IN IF st # 200 THEN cli' = Exit(c, "retry_rejected", 1)
             ELSE \/ cli' = Exit(c, "success", 0)
                  \/ cli' = Throws(c, "display", "payment_failed")
  /\ UNCHANGED <<variant, cmd, MAX_BUDGET, sessionSpending, sessionPayments,
                 walletReady, calls, started, chainTx>>

NextCli ==
  \/ CallCommand
  \/ CliFetchSettle
  \/ CliJsonSettle
  \/ CliBalanceSettle
  \/ CliWriteSettle
  \/ CliReceiptSettle
  \/ CliRetrySettle

\* ------------------------------------------------------ other commands
\* Neither the server nor the call command runs another command.
NoCommand == [pc |-> "off"]

\* The server's state before its first tool call.
FreshSession ==
  /\ sessionSpending = Num(0)
  /\ sessionPayments = <<>>
  /\ walletReady = FALSE
  /\ calls = EmptyBag
  /\ started = 0
  /\ chainTx = 0

\* ----------------------------------------------- normalizeKey on text
\* variant = "normalizeKey": normalizeKey (src/src/commands/call.js) applied
\* to a string and to its own result.  Here a string is the sequence of its
\* characters, and null is a value that is no string.
Null == <<"null">>

\* What String.prototype.trim removes (a space and a line feed stand for
\* the white space and line terminators of the language).
WhiteSpace == {" ", "\n"}

\* [a-fA-F0-9]
HexChars ==
  {"0", "1", "2", "3", "4", "5", "6", "7", "8", "9",
   "a", "b", "c", "d", "e", "f", "A", "B", "C", "D", "E", "F"}

RECURSIVE TrimStart(_)
TrimStart(s) ==
  IF s # <<>> /\ Head(s) \in WhiteSpace THEN TrimStart(Tail(s)) ELSE s

RECURSIVE TrimEnd(_)
TrimEnd(s) ==
  IF s # <<>> /\ s[Len(s)] \in WhiteSpace
  THEN TrimEnd(SubSeq(s, 1, Len(s) - 1))
  ELSE s

\* key.trim()
Trim(s) == TrimEnd(TrimStart(s))

\* key.startsWith(p)
StartsWith(s, p) == Len(s) >= Len(p) /\ SubSeq(s, 1, Len(p)) = p

\* /^0x[a-fA-F0-9]{64}$/.test(key)
KeyPattern(s) ==
  /\ Len(s) = 2 + KeyHexLen
  /\ s[1] = "0" /\ s[2] = "x"
  /\ \A i \in 3..Len(s) : s[i] \in HexChars

\* A slip: the key is tested with the prefix and returned without it.
normalizeKeyText_Unprefixed(key) ==
  LET t == Trim(key)
  IN IF KeyPattern(IF StartsWith(t, <<"0", "x">>) THEN t ELSE <<"0", "x">> \o t)
     THEN t ELSE Null

\* normalizeKey(key): key = key.trim(); if (!key.startsWith('0x')) key =
\* '0x' + key; if (!pattern.test(key)) return null; return key.
normalizeKeyText(key) ==
  LET t == Trim(key)
      k == IF StartsWith(t, <<"0", "x">>) THEN t ELSE <<"0", "x">> \o t
  IN IF KeyPattern(k) THEN k ELSE Null

\* The strings normalizeKey is given: white space or none, a prefix or
\* none, n characters that are all `fill` but the last, white space or none.
KeyText(lead, prefix, n, fill, last, trail) ==
  lead \o prefix \o [i \in 1..n |-> IF i = n THEN last ELSE fill] \o trail

KeyTexts ==
  {KeyText(lead, prefix, n, fill, last, trail) :
     lead \in {<<>>, <<" ">>},
     prefix \in {<<>>, <<"0", "x">>, <<"0", "X">>},
     n \in {0, 1, KeyHexLen - 2, KeyHexLen - 1, KeyHexLen, KeyHexLen + 1},
     fill \in {"a", "F", "7"},
     last \in {"b", "g", " "},
     trail \in {<<>>, <<"\n">>}}

\* The key string record (the call command's model of a key) that stands
\* for a text: what trim removes, the prefix, and the characters after it.
KeyStringOf(text) ==
  IF text = Null THEN NoKey
  ELSE LET t == Trim(text)
           pfx == StartsWith(t, <<"0", "x">>)
           rest == IF pfx THEN SubSeq(t, 3, Len(t)) ELSE t
       IN KeyString("", t # text, pfx, Len(rest),
                    \A i \in 1..Len(rest) : rest[i] \in HexChars)

\* normalizeKey on key string records does what normalizeKey does on text.
KeyStringAgrees ==
  (variant = "normalizeKey" /\ cmd.pc # "start") =>
    KeyStringOf(cmd.once) = normalizeKey(KeyStringOf(cmd.key))

\* The run: the string, the result, the result of normalizing the result.
KeyRun(key) == [pc |-> "start", key |-> key, once |-> Null, twice |-> Null]

InitKeys ==
  /\ variant = "normalizeKey"
  /\ MAX_BUDGET = MaxBudgetOf(<<>>)
  /\ cli = IdleCli
  /\ FreshSession
  /\ \E key \in KeyTexts : cmd = KeyRun(key)

\* normalizeKey(key)
NormalizeKey ==
  /\ variant = "normalizeKey"
  /\ cmd.pc = "start"
  /\ cmd' = [cmd EXCEPT !.pc = "once", !.once = normalizeKeyText(cmd.key)]
  /\ UNCHANGED <<variant, MAX_BUDGET, sessionSpending, sessionPayments,
                 walletReady, calls, started, chainTx, cli>>

\* normalizeKey(normalizeKey(key)), when the first result is a string.
NormalizeAgain ==
  /\ variant = "normalizeKey"
  /\ cmd.pc = "once"
  /\ cmd.once # Null
  /\ cmd' = [cmd EXCEPT !.pc = "twice", !.twice = normalizeKeyText(cmd.once)]
  /\ UNCHANGED <<variant, MAX_BUDGET, sessionSpending, sessionPayments,
                 walletReady, calls, started, chainTx, cli>>

NextKeys == NormalizeKey \/ NormalizeAgain

SpecKeys == InitKeys /\ [][NextKeys]_vars

\* ------------------------------------------------- the wallet command
\* variant = "wallet": one run of walletCommand (src/src/commands/wallet.js)
\* with its options: setup, and address (none, one that matches
\* /^0x[a-fA-F0-9]{40}$/ after trim, one that does not).
AddressOptions == {"none", "valid", "invalid"}

\* The wallet files setupWallet may find: those of the call command, and
\* stored keys without the prefix and with white space around them.
StoredFiles ==
  WalletFiles
    \cup {WalletFile(TRUE, TRUE, KeyString("file", FALSE, FALSE, 64, TRUE)),
          WalletFile(TRUE, TRUE, KeyString("file", TRUE, TRUE, 64, TRUE))}

\* The key generatePrivateKey returns.
GeneratedKey == KeyString("new", FALSE, TRUE, 64, TRUE)

\* getAddressFromKey(existing.privateKey.startsWith('0x') ? existing.privateKey
\* : '0x' + existing.privateKey) returns an address: the field is a string
\* (it has startsWith) and, with the prefix, is 32 bytes in hexadecimal;
\* privateKeyToAccount throws on anything else.  Nothing is trimmed.
AddressDerivable(file) ==
  /\ file.isString
  /\ ~file.privateKey.ws
  /\ file.privateKey.hex /\ file.privateKey.len = KeyHexLen

\* The run: the options, the wallet file before the run and now, what was
\* written to the console, and the exit code (-1 while it runs).
WalletRun(setup, address, file) ==
  [pc |-> "start", setup |-> setup, address |-> address, before |-> file,
   file |-> file, printed |-> {}, exitCode |-> 0 - 1]

\* The command returns or calls process.exit(code).
WalletExit(c, printed, code) ==
  [c EXCEPT !.pc = "done", !.printed = @ \cup printed, !.exitCode = code]

InitWallet ==
  /\ variant = "wallet"
  /\ MAX_BUDGET = MaxBudgetOf(<<>>)
  /\ cli = IdleCli
  /\ FreshSession
  /\ \E setup \in BOOLEAN, address \in AddressOptions, file \in StoredFiles :
       cmd = WalletRun(setup, address, file)

\* setupWallet: the file exists, parses, and existing.privateKey is truthy.
FoundStoredKey(file) ==
  file.exists /\ file.json /\ file.privateKey # NoKey

\* walletCommand up to its first await.  --setup enters setupWallet, which
\* reads the wallet file: with a stored key it loads the payment module,
\* otherwise (no file, a file that does not parse, no privateKey) it goes
\* on to generate a wallet.  Without --setup: the usage text, the address
\* test, the balance request.
WalletCommand ==
  /\ variant = "wallet"
  /\ cmd.pc = "start"
  /\ IF cmd.setup
     THEN cmd' = [cmd EXCEPT !.pc = IF FoundStoredKey(cmd.file)
                                    THEN "import_payment" ELSE "import_viem"]
     ELSE IF cmd.address = "none" THEN cmd' = WalletExit(cmd, {"usage"}, 0)
     ELSE IF cmd.address = "invalid"
     THEN cmd' = WalletExit(cmd, {"given_address"}, 1)
     ELSE cmd' = [cmd EXCEPT !.pc = "rpc_fetch",
                             !.printed = @ \cup {"masked_address"}]
  /\ UNCHANGED <<variant, MAX_BUDGET, sessionSpending, sessionPayments,
                 walletReady, calls, started, chainTx, cli>>

\* const res = await fetch(BASE_RPC_URL, ...): a rejection or an answer
\* that is not ok goes to the catch block, which exits 1.
RpcFetchSettle ==
  /\ variant = "wallet"
  /\ cmd.pc = "rpc_fetch"
  /\ \/ cmd' = WalletExit(cmd, {"error_message"}, 1)
     \/ cmd' = [cmd EXCEPT !.pc = "rpc_json"]
  /\ UNCHANGED <<variant, MAX_BUDGET, sessionSpending, sessionPayments,
                 walletReady, calls, started, chainTx, cli>>

\* const rpcResponse = await res.json(): a body that does not parse, an
\* RPC error or no result exits 1; otherwise the balance is shown.
RpcJsonSettle ==
  /\ variant = "wallet"
  /\ cmd.pc = "rpc_json"
  /\ \/ cmd' = WalletExit(cmd, {"error_message"}, 1)
     \/ cmd' = WalletExit(cmd, {"masked_address", "balance", "given_address"}, 0)
  /\ UNCHANGED <<variant, MAX_BUDGET, sessionSpending, sessionPayments,
                 walletReady, calls, started, chainTx, cli>>

\* setupWallet: const { getAddressFromKey } = await import('../lib/payment.js')
\* and the address of the stored key.  Both are inside the try whose catch
\* ignores the error ("will overwrite"): when the import rejects or the
\* derivation throws, setupWallet goes on to generate a wallet; otherwise
\* it shows the address and returns.
ImportPaymentSettle ==
  /\ variant = "wallet"
  /\ cmd.pc = "import_payment"
  /\ \/ cmd' = [cmd EXCEPT !.pc = "import_viem"]
     \/ IF AddressDerivable(cmd.file)
        THEN cmd' = WalletExit(cmd, {"address", "wallet_path"}, 0)
        ELSE cmd' = [cmd EXCEPT !.pc = "import_viem"]
  /\ UNCHANGED <<variant, MAX_BUDGET, sessionSpending, sessionPayments,
                 walletReady, calls, started, chainTx, cli>>

\* setupWallet: await import('viem/accounts'), generatePrivateKey, mkdirSync
\* and writeFileSync of {address, privateKey, network, created}.  A throw
\* (the import, the directory, the write) is caught: 'Wallet generation
\* failed', exit 1.  After the write the address, the path and the line
\* `export X402_PRIVATE_KEY=${privateKey}` are written to the console.
ImportViemSettle ==
  /\ variant = "wallet"
  /\ cmd.pc = "import_viem"
  /\ \/ cmd' = WalletExit(cmd, {"error_message"}, 1)
     \/ cmd' = WalletExit([cmd EXCEPT !.file =
                                       WalletFile(TRUE, TRUE, GeneratedKey)],
                          {"address", "wallet_path", "private_key"}, 0)
  /\ UNCHANGED <<variant, MAX_BUDGET, sessionSpending, sessionPayments,
                 walletReady, calls, started, chainTx, cli>>

NextWallet ==
  \/ WalletCommand
  \/ RpcFetchSettle
  \/ RpcJsonSettle
  \/ ImportPaymentSettle
  \/ ImportViemSettle

SpecWallet == InitWallet /\ [][NextWallet]_vars

\* --------------------------------------------------- the init command
\* variant = "init": runs of initCommand (src/src/commands/init.js) for one
\* client, each generating the client's MCP configuration
\* (generateMcpConfig, src/src/generators/mcp-config.js) and merging it into
\* the client's config file (writeConfig); then the client starts the
\* server with the environment the file gives it.
\*
\* Runs of init for the same client, one after the other.
MaxInitRuns == 2

\* The names the --env help text and the tests list, and one that is none.
ValidEnvironments ==
  {"claude-desktop", "cursor", "claude-code", "vscode-continue", "generic"}
Environments == ValidEnvironments \cup {"invalid-env"}

\* The environments detectEnvironment knows a config file for.
HasConfigPath(environment) ==
  environment \in {"claude-desktop", "claude-code", "cursor", "vscode-continue"}

\* A network name is a sequence of one word; <<>> is the empty string.
ValidNetworks == {<<"mainnet">>, <<"testnet">>}
NetworkOptions == {<<>>, <<"mainnet">>, <<"invalid-network">>}

\* --budget: empty (no override), the default "1.00", and values the prompt
\* would refuse.  Whole USDC, in the tokens of ParseFloat.
BudgetOptions == {<<>>, <<"1">>, <<"x">>, <<"0">>, <<"-", "1">>, <<"1", "0", "1">>}

\* What a user may type at the budget prompt.
BudgetAnswers == {<<"2">>, <<"1", "0", "0">>, <<"x">>, <<"0">>, <<"1", "0", "1">>}

\* The prompt's limit: if (n > 100) return 'Maximum is 100 USDC per session'.
MaxSessionBudget == 100

\* validate: (v) => { const n = parseFloat(v); if (isNaN(n) || n <= 0)
\* return '...'; if (n > 100) return '...'; return true; }
ValidateBudget(v) ==
  LET n == ParseFloat(v)
  IN ~(n.k = "nan" \/ FLe(n, Num(0))) /\ ~FGt(n, Num(MaxSessionBudget))

\* The server entry of a configuration: what matters of env (MAX_BUDGET_USDC,
\* NETWORK, and whether the wallet's variables are there).
ServerEntry(maxBudget, network, readOnly) ==
  [maxBudget |-> maxBudget, network |-> network, readOnly |-> readOnly]

\* generateMcpConfig: {mcpServers: {'x402-bazaar': serverEntry}}, or for
\* vscode-continue {models: [], mcpServers: [{name: 'x402-bazaar',
\* ...serverEntry}]}.  Any other environment takes the switch's default.
generateMcpConfig(environment, maxBudget, network, readOnly) ==
  [shape |-> IF environment = "vscode-continue" THEN "list" ELSE "object",
   entry |-> ServerEntry(maxBudget, network, readOnly)]

\* A client's config file: whether it exists and parses as JSON, whether
\* the parsed value is an object (or null), its top-level members other
\* than mcpServers (pairs of a name and a value), the shape of mcpServers
\* ("none", "object", "list") and the servers in it, in order, each with
\* its name (the key, or the name member) and its value.
ConfigFile(exists, json, root, others, shape, servers) ==
  [exists |-> exists, json |-> json, root |-> root, others |-> others,
   shape |-> shape, servers |-> servers]

Server(name, value) == [name |-> name, value |-> value]

\* JSON.stringify(newConfig, null, 2) as a file.
FileOf(newConfig) ==
  ConfigFile(TRUE, TRUE, "object",
             IF newConfig.shape = "list" THEN {<<"models", "none">>} ELSE {},
             newConfig.shape,
             <<Server("x402-bazaar", newConfig.entry)>>)

\* existing.mcpServers.findIndex(s => s.name === 'x402-bazaar'), from 1;
\* 0 when there is none.
RECURSIVE FindIndex(_, _)
FindIndex(servers, i) ==
  IF i > Len(servers) THEN 0
  ELSE IF servers[i].name = "x402-bazaar" THEN i
  ELSE FindIndex(servers, i + 1)

\* The servers with the entry put under 'x402-bazaar': replaced where the
\* first one of that name is, appended when there is none.
PutEntry(servers, entry) ==
  LET idx == FindIndex(servers, 1)
  IN IF idx > 0 THEN [servers EXCEPT ![idx] = Server("x402-bazaar", entry)]
     ELSE Append(servers, Server("x402-bazaar", entry))

\* writeConfig's finalConfig, as the file it writes.  A file that is
\* missing gives newConfig; so does whatever throws inside the inner try
\* (JSON.parse, a member read on null, findIndex on an object that is not
\* an array): "Could not parse existing config - creating new file".
\* Setting ['x402-bazaar'] on an array adds a property JSON.stringify does
\* not write.
writeConfig(environment, newConfig, file) ==
  IF ~file.exists \/ ~file.json \/ file.root = "null" THEN FileOf(newConfig)
  ELSE IF environment = "vscode-continue"
  THEN IF file.shape = "object" THEN FileOf(newConfig)
       ELSE [file EXCEPT !.shape = "list",
                         !.servers = PutEntry(@, newConfig.entry)]
  ELSE IF file.shape = "list" THEN file
       ELSE [file EXCEPT !.shape = "object",
                         !.servers = PutEntry(@, newConfig.entry)]

\* The config files init may find.
OldEntry == ServerEntry(<<"2">>, <<"testnet">>, TRUE)
UserServer == Server("other", "user")
ConfigFiles ==
  {ConfigFile(FALSE, FALSE, "object", {}, "none", <<>>),
   ConfigFile(TRUE, FALSE, "object", {}, "none", <<>>),
   ConfigFile(TRUE, TRUE, "null", {}, "none", <<>>),
   ConfigFile(TRUE, TRUE, "object", {<<"theme", "user">>}, "none", <<>>),
   ConfigFile(TRUE, TRUE, "object", {<<"theme", "user">>}, "object",
              <<UserServer>>),
   ConfigFile(TRUE, TRUE, "object", {<<"models", "user">>}, "list",
              <<UserServer>>),
   ConfigFile(TRUE, TRUE, "object", {}, "object",
              <<UserServer, Server("x402-bazaar", OldEntry)>>),
   ConfigFile(TRUE, TRUE, "object", {<<"models", "user">>}, "list",
              <<Server("x402-bazaar", OldEntry), UserServer>>)}

NoConfig == [shape |-> "none", entry |-> ServerEntry(<<>>, <<>>, TRUE)]

\* The runs: the client (targetEnv.name), whether the terminal is
\* interactive, the client's config file before this run's writeConfig and
\* now, the configuration this run generated, whether writeConfig wrote
\* it, the runs so far, and the exit code (-1 while init runs).
InitRun(environment, interactive, file) ==
  [pc |-> "start", environment |-> environment, interactive |-> interactive,
   before |-> file, file |-> file, config |-> NoConfig, wrote |-> FALSE,
   runs |-> 1, exitCode |-> 0 - 1]

InitInit ==
  /\ variant = "init"
  /\ MAX_BUDGET = MaxBudgetOf(<<>>)
  /\ cli = IdleCli
  /\ FreshSession
  /\ \E environment \in Environments, interactive \in BOOLEAN,
        file \in ConfigFiles :
       cmd = InitRun(environment, interactive, file)

\* Step 4 of initCommand: generateMcpConfig with what the wallet step
\* settled, then writeConfig when the client has a config path (the JSON is
\* printed otherwise).  writeFileSync may throw: writeConfig then prints
\* the JSON and returns false.  wrote tells which of the two happened.
Configure(c, maxBudget, network, readOnly, wrote) ==
  LET config == generateMcpConfig(c.environment, maxBudget, network, readOnly)
  IN [c EXCEPT !.pc = "verify", !.config = config,
               !.before = c.file,
               !.wrote = wrote /\ HasConfigPath(c.environment),
               !.file = IF wrote /\ HasConfigPath(c.environment)
                        THEN writeConfig(c.environment, config, c.file)
                        ELSE c.file]

\* initCommand up to the wallet step: the Node version, the environment,
\* the server files (a failure exits 1).  With --no-wallet the defaults
\* '1.00' and 'mainnet' go straight to step 4.
InitCommand ==
  /\ variant = "init"
  /\ cmd.pc = "start"
  /\ \/ cmd' = [cmd EXCEPT !.pc = "done", !.exitCode = 1]
     \/ cmd' = [cmd EXCEPT !.pc = "mode"]
     \/ \E wrote \in BOOLEAN :
          cmd' = Configure(cmd, <<"1">>, <<"mainnet">>, TRUE, wrote)
  /\ UNCHANGED <<variant, MAX_BUDGET, sessionSpending, sessionPayments,
                 walletReady, calls, started, chainTx, cli>>

\* The payment mode prompt: 'existing', 'new' or 'readonly' at an
\* interactive terminal, the default 'readonly' otherwise.  'new' followed
\* by "Continue in read-only mode?" answered no exits 0.
ModeSettle ==
  /\ variant = "init"
  /\ cmd.pc = "mode"
  /\ \/ cmd' = [cmd EXCEPT !.pc = "readonly"]
     \/ /\ cmd.interactive
        /\ \/ cmd' = [cmd EXCEPT !.pc = "existing"]
           \/ cmd' = [cmd EXCEPT !.pc = "done", !.exitCode = 0]
  /\ UNCHANGED <<variant, MAX_BUDGET, sessionSpending, sessionPayments,
                 walletReady, calls, started, chainTx, cli>>

\* promptOrDefault(questions, overrides) for one question, as the set of
\* answers it may give: an override is the answer, unvalidated, in both
\* modes; without one the answer is what the user enters and the prompt
\* accepts (interactive) or the default.
PromptOrDefault(interactive, override, accepted, default) ==
  IF override # <<>> THEN {override}
  ELSE IF interactive THEN accepted
  ELSE {default}

\* The network and budget prompt, with --network and --budget as overrides
\* (if (options.budget) configOverrides.maxBudget = options.budget), then
\* step 4.  inquirer asks again until validate returns true, so a typed
\* budget has passed it.
BudgetSettle ==
  /\ variant = "init"
  /\ cmd.pc \in {"readonly", "existing"}
  /\ \E budget \in BudgetOptions, network \in NetworkOptions :
       \E maxBudget \in PromptOrDefault(cmd.interactive, budget,
                          {a \in BudgetAnswers : ValidateBudget(a)}, <<"1">>),
          answer \in PromptOrDefault(cmd.interactive, network,
                          ValidNetworks, <<"mainnet">>),
          wrote \in BOOLEAN :
         cmd' = Configure(cmd, maxBudget, answer, cmd.pc = "readonly", wrote)
  /\ UNCHANGED <<variant, MAX_BUDGET, sessionSpending, sessionPayments,
                 walletReady, calls, started, chainTx, cli>>

\* Step 5: the marketplace is asked for its health; whatever comes back,
\* init prints its summary and ends.
VerifySettle ==
  /\ variant = "init"
  /\ cmd.pc = "verify"
  /\ cmd' = [cmd EXCEPT !.pc = "done", !.exitCode = 0]
  /\ UNCHANGED <<variant, MAX_BUDGET, sessionSpending, sessionPayments,
                 walletReady, calls, started, chainTx, cli>>

\* init is run again for the same client.
InitAgain ==
  /\ variant = "init"
  /\ cmd.pc = "done"
  /\ cmd.runs < MaxInitRuns
  /\ \E interactive \in BOOLEAN :
       cmd' = [cmd EXCEPT !.pc = "start", !.interactive = interactive,
                          !.runs = @ + 1, !.exitCode = 0 - 1,
                          !.config = NoConfig, !.wrote = FALSE]
  /\ UNCHANGED <<variant, MAX_BUDGET, sessionSpending, sessionPayments,
                 walletReady, calls, started, chainTx, cli>>

\* The client starts the server its config file names, with the env of
\* that entry: const MAX_BUDGET = parseFloat(process.env.MAX_BUDGET_USDC
\* || '1.00').
StartServer ==
  /\ variant = "init"
  /\ cmd.pc = "done"
  /\ cmd.wrote
  /\ FindIndex(cmd.file.servers, 1) > 0
  /\ MAX_BUDGET' =
       MaxBudgetOf(cmd.file.servers[FindIndex(cmd.file.servers, 1)]
                     .value.maxBudget)
  /\ cmd' = [cmd EXCEPT !.pc = "serving"]
  /\ UNCHANGED <<variant, sessionSpending, sessionPayments,
                 walletReady, calls, started, chainTx, cli>>

NextInit ==
  \/ InitCommand
  \/ ModeSettle
  \/ BudgetSettle
  \/ VerifySettle
  \/ InitAgain
  \/ StartServer

SpecInit == InitInit /\ [][NextInit]_vars

\* --------------------------------------------------- the specification
InitServer ==
  /\ variant = "server"
  /\ \E env \in BudgetEnv : MAX_BUDGET = MaxBudgetOf(env)
  /\ cli = IdleCli

InitCli ==
  /\ variant = "cli"
  /\ MAX_BUDGET = MaxBudgetOf(<<>>)
  /\ \E e \in BOOLEAN, o \in OptKeys, v \in EnvKeys, f \in WalletFiles,
        b \in Balances :
       cli = CliRun(e, o, v, f, b)

Init ==
  /\ InitServer \/ InitCli
  /\ FreshSession
  /\ cmd = NoCommand

Next == NextServer \/ NextCli

Spec == Init /\ [][Next]_vars


\* ----------------------------------------------------------- the claims
\* The number of invocations in flight that satisfy P.
Count(P(_)) ==
  BagCardinality([c \in {d \in InFlight : P(d)} |-> CopiesIn(c, calls)])

\* Between the budget check it passed and the recording of its payment.
PassedCheck(c) ==
  c.pc \in {"init_import", "init_fetch", "init_load", "init_return",
            "transfer", "wait"}

\* A challenge that names a positive decimal amount and a recipient.
WellFormed(amount, recipient) ==
  TruthyAddr(recipient) /\ ParseUnits(amount).ok /\ ParseUnits(amount).v > 0

\* The amount and the recipient a body carries, nested under
\* payment_details or as top-level amount and recipient: the two shapes of
\* the wire contract, whatever the code reads of them (PriceOf, PayToOf and
\* Challenge are what it reads).
SentAmount(body) ==
  IF body.hasPd /\ TruthyAmount(body.pdAmount) THEN body.pdAmount
  ELSE body.amount

SentRecipient(body) ==
  IF body.hasPd /\ TruthyAddr(body.pdRecipient) THEN body.pdRecipient
  ELSE body.recipient

\* Some step of invocation c.
StepOf(c) ==
  \/ FetchSettle(c) \/ JsonSettle(c) \/ InitImport(c) \/ InitFetch(c)
  \/ InitLoad(c) \/ InitReturn(c) \/ TransferSettle(c) \/ WaitSettle(c)
  \/ RetrySettle(c) \/ RetryJsonSettle(c) \/ Finish(c)

\* C1, as claimed, of the sessions whose recorded payments were all of
\* positive finite amounts (the claim asks it of every session): in every
\* reachable state of the generated server the running total is at most
\* the limit.
C1_SpentWithinLimit ==
  ( /\ variant = "server"
    /\ \A i \in 1..Len(sessionPayments) :
         IsFinite(sessionPayments[i].amount) /\ sessionPayments[i].amount.v > 0 )
  => FLe(sessionSpending, MAX_BUDGET)

\* C2, as claimed: never have two payment cycles both passed the budget
\* check with neither having recorded its payment.
C2_CheckAndRecordAtomic == Count(PassedCheck) <= 1

\* C3: one execute submits at most one payment: each invocation of
\* payAndRequest calls createTransfer at most once, also when others are in
\* flight, so the confirmed transfers never outnumber the tool calls; one
\* run of the call command calls sendUsdcPayment, and writes a transfer, at
\* most once.
C3_AtMostOnePayment ==
  /\ \A c \in InFlight : c.payCalls <= 1 /\ c.recorded <= 1
  /\ variant = "server" =>
       chainTx <= started /\ Len(sessionPayments) <= started
  /\ variant = "cli" =>
       cli.payCalls <= 1 /\ cli.transfers <= 1 /\ chainTx <= 1

\* C3's case: two invocations in flight at once, each having paid.
C3_Witness == Count(LAMBDA c : c.payCalls = 1) = 2

\* C4, as claimed, with the payment confirmed and (server) the amount within
\* the budget: a well-formed challenge, in either of the two shapes of the
\* wire contract for the call command and nested under payment_details for
\* the server, with a key resolved and a sufficient balance, ends with
\* exactly one pay call, one transfer and two requests; no run issues more
\* than two requests, and a run that has not ended has a step to take.
C4_PaidOnceRetriedOnce ==
  /\ ( /\ variant = "cli"
       /\ cli.pc = "done"
       /\ cli.status = 402
       /\ cli.privateKey # NoKey
       /\ cli.body.isObject
       /\ WellFormed(SentAmount(cli.body), SentRecipient(cli.body))
       /\ cli.balance >= ParseUnits(SentAmount(cli.body)).v
       /\ cli.failedAt \notin {"balanceOf", "transfer", "receipt"} )
     => cli.payCalls = 1 /\ cli.transfers = 1 /\ cli.requests = 2
  /\ \A c \in InFlight :
       ( /\ c.pc = "done"
         /\ c.status = 402
         /\ WellFormed(c.amount, c.recipient)
         /\ c.outcome.kind \notin
              {"budget_exceeded", "wallet_init_failed", "payment_failed"} )
       => c.payCalls = 1 /\ c.recorded = 1 /\ c.requests = 2
  /\ \A c \in InFlight : c.requests <= 2 /\ ENABLED StepOf(c)
  /\ variant = "cli" =>
       /\ cli.requests <= 2
       /\ cli.pc # "done" => ENABLED NextCli

\* C5: an answer whose status is not 402 ends the run after that one
\* request: no pay call, no transfer, no ledger write, and the outcome is
\* the answer itself (shown or returned), or the failure to read its body.
C5_NoPaymentWithout402 ==
  /\ (variant = "cli" /\ cli.status \notin {0, 402}) =>
       /\ cli.requests = 1 /\ cli.payCalls = 0 /\ cli.transfers = 0
       /\ cli.pc = "done"
       /\ cli.outcome \in {"success", "http_error", "request_failed"}
       /\ chainTx = 0
  /\ \A c \in InFlight :
       c.status \notin {0, 402} =>
         /\ c.requests = 1 /\ c.payCalls = 0 /\ c.recorded = 0
         /\ c.pc \in {"json", "done"}
         /\ c.pc = "done" =>
              /\ c.outcome.kind \in {"passthrough", "bad_json"}
              /\ c.outcome.isError = (c.outcome.kind = "bad_json")

\* C5's case: the server has returned a 500 answer's body as it came.
C5_Witness ==
  \E c \in InFlight :
    c.pc = "done" /\ c.status = 500 /\ c.outcome.kind = "passthrough"

\* C6, as claimed: a retried request answered 402 again ends in a failure,
\* with no second payment and no third request.
C6_Retried402IsFailure ==
  /\ (variant = "cli" /\ cli.pc = "done" /\ cli.retryStatus = 402) =>
       cli.exitCode = 1 /\ cli.payCalls = 1 /\ cli.requests = 2
  /\ \A c \in InFlight :
       (c.pc = "done" /\ c.retryStatus = 402) =>
         c.outcome.isError /\ c.payCalls = 1 /\ c.requests = 2

\* C7, as claimed: without a key, a 402 whose body carries an amount and a
\* recipient, in either of the two shapes of the wire contract, ends in the
\* funding instructions with nothing paid and no second request, and the
\* amount and the recipient are shown.
C7_NoKeyNoPayment ==
  ( /\ variant = "cli"
    /\ cli.pc = "done"
    /\ cli.status = 402
    /\ cli.privateKey = NoKey
    /\ cli.body.isObject
    /\ TruthyAmount(SentAmount(cli.body))
    /\ TruthyAddr(SentRecipient(cli.body)) ) =>
    /\ cli.payCalls = 0 /\ cli.transfers = 0 /\ cli.requests = 1
    /\ chainTx = 0
    /\ cli.outcome = "no_funding"
    /\ cli.shownPrice /\ cli.shownPayTo

\* C8, as claimed: the step that checks the budget accepts the cycle
\* exactly when spent + amountDue <= limit; a rejection quotes the amount
\* and the limit, has paid nothing, has asked once, and leaves the total
\* and the ledger as they were.
C8_BudgetCheck ==
  [][\A c \in InFlight, d \in BagToSet(calls') :
       ( /\ c.pc = "json" /\ c.status = 402
         /\ CopiesIn(c, calls') < CopiesIn(c, calls)
         /\ CopiesIn(d, calls') > CopiesIn(d, calls) ) =>
         /\ d.pc \in {"init_import", "init_return"} =>
              FLe(FAdd(sessionSpending, CostOf(d)), MAX_BUDGET)
         /\ (d.pc = "done" /\ d.outcome.kind = "budget_exceeded") =>
              /\ ~FLe(FAdd(sessionSpending, CostOf(d)), MAX_BUDGET)
              /\ d.outcome.amount = CostOf(d)
              /\ d.outcome.limit = MAX_BUDGET
              /\ d.payCalls = 0 /\ d.requests = 1 /\ d.recorded = 0
              /\ UNCHANGED <<sessionSpending, sessionPayments, chainTx>>]_vars

\* C9, as claimed: a challenge whose amount parses to a negative number,
\* NaN or an infinity is never paid and never recorded.
C9_BadAmountRejected ==
  \A c \in InFlight :
    (c.status = 402 /\ c.amount # Undef
       /\ (~IsFinite(CostOf(c)) \/ CostOf(c).v < 0))
    => c.payCalls = 0 /\ c.recorded = 0

\* C10, as claimed: no step makes the running total smaller.
C10_SpentMonotonic == [][~FLt(sessionSpending', sessionSpending)]_vars

\* C11, as claimed: the budget is written only for a payment that was
\* confirmed: an invocation that has written the total and the ledger had
\* its transfer complete on the chain, and one that ended because wallet
\* initialisation, createTransfer or the wait threw has written nothing,
\* has issued no second request and ends in an error result.
C11_RecordedOnlyIfConfirmed ==
  \A c \in InFlight :
    /\ c.recorded > 0 => ~c.txFailed
    /\ (c.pc = "done"
          /\ c.outcome.kind \in {"wallet_init_failed", "payment_failed"}) =>
         /\ c.recorded = 0 /\ c.requests = 1 /\ c.txHash = 0
         /\ c.outcome.isError

\* The sum of the ledger's first n amounts, added in the ledger's order.
RECURSIVE LedgerSum(_)
LedgerSum(n) ==
  IF n = 0 THEN Num(0)
  ELSE FAdd(LedgerSum(n - 1), sessionPayments[n].amount)

\* In this step an invocation's wait has resolved with a complete transfer.
ConfirmedNow ==
  \E c \in InFlight, d \in BagToSet(calls') :
    /\ c.pc = "wait" /\ CopiesIn(c, calls') < CopiesIn(c, calls)
    /\ d.pc = "retry" /\ CopiesIn(d, calls') > CopiesIn(d, calls)
    /\ ~d.txFailed

\* The total is the sum of the ledger, whose entries are in the order of
\* their hashes.
LedgerConsistent ==
  /\ sessionSpending = LedgerSum(Len(sessionPayments))
  /\ \A i \in 1..Len(sessionPayments) : sessionPayments[i].txHash = i

\* C12, as claimed: in every state of the server the total is the sum of
\* the ledger's amounts, and the ledger holds one entry per confirmed
\* payment in confirmation order: a step appends one entry when a transfer
\* has just been confirmed complete, and no step changes the ledger
\* otherwise.
C12_LedgerAndTotal ==
  /\ [](variant = "server" => LedgerConsistent)
  /\ [][ /\ Len(sessionPayments') =
             Len(sessionPayments) + (IF ConfirmedNow THEN 1 ELSE 0)
         /\ SubSeq(sessionPayments', 1, Len(sessionPayments)) = sessionPayments
       ]_vars

\* A body names an amount, or a recipient, under any of the member names
\* in use.
HasAmount(body) ==
  body.isObject /\ (TruthyAmount(SentAmount(body)) \/ TruthyAmount(body.price))

HasRecipient(body) ==
  /\ body.isObject
  /\ \/ TruthyAddr(SentRecipient(body))
     \/ (body.hasPd /\ TruthyAddr(body.pdWallet))
     \/ TruthyAddr(body.paymentAddress)

\* C13, as claimed: a 402 whose body does not parse, or names no amount,
\* or names no recipient, is never paid and never retried: the call command
\* makes no sendUsdcPayment call, and the server creates no transfer with
\* an amount or a destination that payment_details does not give.
C13_MalformedNeverPaid ==
  /\ ( /\ variant = "cli"
       /\ cli.status = 402
       /\ cli.pc \notin {"fetch", "json"}
       /\ ~(cli.body.json /\ HasAmount(cli.body) /\ HasRecipient(cli.body)) )
     => cli.payCalls = 0 /\ cli.transfers = 0 /\ cli.requests = 1
  /\ \A c \in InFlight :
       (c.status = 402 /\ (c.amount = Undef \/ c.recipient = NoAddr))
       => c.payCalls = 0 /\ c.requests = 1

\* C14, as claimed: a 402 whose challenge does not give both an amount and
\* a recipient ends in a failure, with or without a key: exit code 1 for
\* the call command, an error result for the server.
C14_PartialChallengeFails ==
  /\ ( /\ variant = "cli"
       /\ cli.pc = "done"
       /\ cli.status = 402
       /\ ~(cli.body.json /\ HasAmount(cli.body) /\ HasRecipient(cli.body)) )
     => cli.exitCode = 1
  /\ \A c \in InFlight :
       ( /\ c.pc = "done"
         /\ c.status = 402
         /\ (c.amount = Undef \/ c.recipient = NoAddr) )
       => c.outcome.isError

\* C15, as claimed, for the call command: the amount and the recipient the
\* parser yields are those the body carries, nested under payment_details
\* or at the top level, and with a key resolved the payment is started in
\* both cases.
C15_EitherShapeParsed ==
  ( /\ variant = "cli"
    /\ cli.status = 402
    /\ cli.pc \notin {"fetch", "json"}
    /\ cli.body.isObject
    /\ TruthyAmount(SentAmount(cli.body))
    /\ TruthyAddr(SentRecipient(cli.body)) ) =>
    /\ cli.price = SentAmount(cli.body)
    /\ cli.payTo = SentRecipient(cli.body)
    /\ cli.privateKey # NoKey => cli.payCalls = 1

\* C16: the request sent again is the first request with one header added,
\* X-Payment-TxHash, whose value is the hash of this run's own payment (on
\* the server, the hash of the ledger entry this invocation wrote); no two
\* invocations send the same hash.
C16_RetryCarriesOwnProof ==
  /\ \A c \in InFlight :
       c.requests = 2 =>
         /\ c.retried = [ServerRequest EXCEPT !.headers =
                            @ \cup {<<"X-Payment-TxHash", c.txHash>>}]
         /\ c.txHash \in 1..Len(sessionPayments)
         /\ sessionPayments[c.txHash].amount = CostOf(c)
         /\ c.recorded = 1
         /\ CopiesIn(c, calls) = 1
         /\ \A d \in InFlight :
              (d # c /\ d.requests = 2) => d.txHash # c.txHash
  /\ \A c \in InFlight : c.requests = 1 => c.retried = NoRequest
  /\ variant = "cli" =>
       /\ cli.requests = 2 =>
            /\ cli.retried = [CliRequest EXCEPT !.headers =
                                 @ \cup {<<"X-Payment-TxHash", cli.txHash>>}]
            /\ cli.txHash = chainTx /\ chainTx = 1
            /\ cli.transfers = 1
       /\ cli.requests < 2 => cli.retried = NoRequest

\* C16's case: two invocations have each paid and sent their request again.
C16_Witness == Count(LAMBDA c : c.requests = 2 /\ c.pc = "retry") = 2

\* C17, as claimed: within one run the payment is submitted only after the
\* budget check has passed, the budget is written only after the payment
\* was confirmed, and the request is sent again only after the payment was
\* confirmed and (on the server) written to the budget.
C17_StrictOrder ==
  /\ \A c \in InFlight :
       /\ c.payCalls >= 1 =>
            /\ c.status = 402
            /\ c.pc \in {"transfer", "wait", "retry", "retry_json", "done"}
            /\ c.outcome.kind # "budget_exceeded"
       /\ c.recorded >= 1 => c.payCalls = 1 /\ c.txHash # 0 /\ ~c.txFailed
       /\ c.requests = 2 => c.recorded = 1 /\ ~c.txFailed
  /\ variant = "cli" =>
       /\ cli.payCalls >= 1 => cli.status = 402 /\ cli.privateKey # NoKey
       /\ cli.transfers >= 1 =>
            cli.payCalls = 1 /\ cli.pc \in {"write", "receipt", "retry", "done"}
       /\ cli.requests = 2 =>
            cli.transfers = 1 /\ cli.txHash # 0 /\ ~cli.txFailed

\* C18: when balanceOf has answered with a balance below the amount, the
\* payment fails with the insufficient-balance error, which quotes the
\* balance and the amount needed; no transfer is written and the request
\* is not sent again.
C18_InsufficientFunds ==
  ( /\ variant = "cli"
    /\ cli.pc \notin {"start", "fetch", "json", "balance"}
    /\ cli.payCalls = 1
    /\ cli.failedAt # "balanceOf"
    /\ ParseUnits(cli.price).ok
    /\ cli.balance < ParseUnits(cli.price).v ) =>
    /\ cli.pc = "done"
    /\ cli.failedAt = "insufficient"
    /\ cli.outcome = "payment_failed" /\ cli.exitCode = 1
    /\ cli.reported = [available |-> cli.balance, required |-> cli.price]
    /\ cli.transfers = 0 /\ chainTx = 0
    /\ cli.requests = 1

\* C18's case: a balance of 0 against an amount of 1.
C18_Witness ==
  /\ variant = "cli"
  /\ cli.pc = "done"
  /\ cli.failedAt = "insufficient"
  /\ cli.balance = 0
  /\ cli.price = <<"1">>

\* A key string that has 64 hexadecimal digits after its optional prefix.
ValidKey(key) == key.hex /\ key.len = KeyHexLen

\* The canonical form of a key string: trimmed, with the prefix.
CanonicalKey(key) == [key EXCEPT !.ws = FALSE, !.pfx = TRUE]

\* The key that decides: the first of the option, the environment's
\* variable and the wallet file's field that is present.
DecidingKey ==
  IF cli.optKey # NoKey THEN cli.optKey
  ELSE IF cli.envKey # NoKey THEN cli.envKey
  ELSE IF cli.file.exists /\ cli.file.json /\ cli.file.isString
  THEN cli.file.privateKey
  ELSE NoKey

\* C19: once callCommand has resolved the key, the result is decided by
\* the first source present alone: it is that source's key in canonical
\* form when the key is valid and absent when it is not, whatever the
\* sources of lower precedence hold.
C19_StrictPrecedence ==
  (variant = "cli" /\ cli.pc # "start" /\ cli.endpoint) =>
    IF DecidingKey # NoKey /\ ValidKey(DecidingKey)
    THEN cli.privateKey = CanonicalKey(DecidingKey)
    ELSE cli.privateKey = NoKey

\* C19's case: the option, the variable and the file all hold a valid key
\* and the option's key is the one resolved.
C19_Witness ==
  /\ variant = "cli"
  /\ cli.pc # "start"
  /\ ValidKey(cli.optKey) /\ cli.optKey # NoKey
  /\ ValidKey(cli.envKey) /\ cli.envKey # NoKey
  /\ cli.file.privateKey # NoKey
  /\ cli.privateKey.id = "opt"

\* C20, as claimed: when the option's key is given and malformed, no key
\* is resolved, whatever the environment and the wallet file hold, and the
\* run ends by reporting the key as invalid.
C20_MalformedKeyFailsClosed ==
  ( /\ variant = "cli"
    /\ cli.pc # "start" /\ cli.endpoint
    /\ cli.optKey # NoKey /\ ~ValidKey(cli.optKey) ) =>
    /\ cli.privateKey = NoKey
    /\ cli.payCalls = 0
    /\ cli.pc = "done" => cli.outcome = "invalid_key" /\ cli.exitCode = 1

\* The wallet file gives no key: it is missing, does not parse, or its
\* privateKey field is missing, not a string or not a key.
NoUsableFileKey(file) ==
  \/ ~file.exists
  \/ ~file.json
  \/ file.privateKey = NoKey
  \/ ~file.isString
  \/ ~ValidKey(file.privateKey)

\* C21: with no --key and no X402_PRIVATE_KEY, a wallet file that gives no
\* key makes the resolver return absent without raising: the command goes
\* on to its request, never pays, and a challenge that names a price and a
\* recipient ends with the funding instructions (exit code 0).
C21_WalletFileFailuresNonFatal ==
  ( /\ variant = "cli"
    /\ cli.pc # "start" /\ cli.endpoint
    /\ cli.optKey = NoKey /\ cli.envKey = NoKey
    /\ NoUsableFileKey(cli.file) ) =>
    /\ cli.privateKey = NoKey
    /\ cli.requests = 1
    /\ cli.payCalls = 0
    /\ ( /\ cli.pc = "done" /\ cli.status = 402 /\ cli.failedAt = "none"
         /\ TruthyAmount(cli.price) /\ TruthyAddr(cli.payTo) ) =>
           cli.outcome = "no_funding" /\ cli.exitCode = 0

\* C21's case: a wallet file whose privateKey is one digit short, no other
\* key, and the run ended with the funding instructions.
C21_Witness ==
  /\ variant = "cli"
  /\ cli.optKey = NoKey /\ cli.envKey = NoKey
  /\ cli.file.exists /\ cli.file.json /\ cli.file.privateKey # NoKey
  /\ ~ValidKey(cli.file.privateKey)
  /\ cli.pc = "done" /\ cli.outcome = "no_funding"

\* The informational outcome: a challenge that names a price and a
\* recipient, met with no key given by the option or the environment and
\* none resolved, ends with the funding instructions.
PaymentRequiredNoKey ==
  /\ cli.outcome = "no_funding"
  /\ cli.status = 402
  /\ cli.optKey = NoKey /\ cli.envKey = NoKey /\ cli.privateKey = NoKey
  /\ TruthyAmount(cli.price) /\ TruthyAddr(cli.payTo)

\* C23, as claimed: a finished run of the call command has exit code 0 or
\* 1; it is 0 when the response was displayed, and it is 0 only then or on
\* the informational outcome.
C23_ExitCodes ==
  (variant = "cli" /\ cli.pc = "done") =>
    /\ cli.exitCode \in {0, 1}
    /\ cli.outcome = "success" => cli.exitCode = 0
    /\ cli.exitCode = 0 => cli.outcome = "success" \/ PaymentRequiredNoKey

\* C29, as claimed: a run of the call command that ends by reporting
\* 'Payment failed' has not sent the retried request: sendUsdcPayment did
\* not return.
C29_PaymentFailedOnlyUnpaid ==
  (variant = "cli" /\ cli.pc = "done" /\ cli.outcome = "payment_failed") =>
    cli.requests = 1 /\ cli.retried = NoRequest

\* What went wrong in a finished invocation: a call that threw (the
\* request, reading a body, the challenge, the budget check, initWallet,
\* the transfer, the retried request), a transfer that failed on the
\* chain, or a retried request answered 402 again.
ToolFailed(c) ==
  \/ c.outcome.kind \in {"fetch_failed", "bad_json", "type_error",
                         "budget_exceeded", "wallet_init_failed",
                         "payment_failed", "retry_failed"}
  \/ c.txFailed
  \/ c.retryStatus = 402

\* C24, as claimed: a paid tool's invocation that has ended holds a result,
\* and the result has isError set when anything went wrong.
C24_StructuredResults ==
  \A c \in InFlight :
    c.pc = "done" =>
      /\ c.outcome.kind # "none"
      /\ ToolFailed(c) => c.outcome.isError

\* 64 hexadecimal characters.
IsHexKey(s) == Len(s) = KeyHexLen /\ \A i \in 1..Len(s) : s[i] \in HexChars

\* C22: normalizeKey returns null or "0x" followed by exactly 64
\* hexadecimal characters; 64 hexadecimal characters are accepted with the
\* prefix and without it, and both give the prefixed key; normalizing a
\* result returns it unchanged.
C22_NormalizeKey ==
  (variant = "normalizeKey" /\ cmd.pc # "start") =>
    /\ \/ cmd.once = Null
       \/ /\ SubSeq(cmd.once, 1, 2) = <<"0", "x">>
          /\ IsHexKey(SubSeq(cmd.once, 3, Len(cmd.once)))
    /\ IsHexKey(cmd.key) => cmd.once = <<"0", "x">> \o cmd.key
    /\ (StartsWith(cmd.key, <<"0", "x">>)
          /\ IsHexKey(SubSeq(cmd.key, 3, Len(cmd.key)))) => cmd.once = cmd.key
    /\ cmd.pc = "twice" => cmd.twice = cmd.once

\* C22's case: a key given without the prefix and with white space around
\* it was accepted and normalized again.
C22_Witness ==
  /\ variant = "normalizeKey"
  /\ cmd.pc = "twice"
  /\ cmd.key # cmd.once
  /\ Head(cmd.key) = " "
  /\ ~StartsWith(Trim(cmd.key), <<"0", "x">>)

\* C25, as claimed: nothing the wallet command writes to the console holds
\* the private key.
C25_KeyNeverLogged ==
  variant = "wallet" => "private_key" \notin cmd.printed

\* C28, as claimed: when the wallet file holds a privateKey field before
\* wallet --setup runs, its content stays what it was.
C28_StoredKeyKept ==
  ( /\ variant = "wallet"
    /\ cmd.setup
    /\ cmd.before.exists /\ cmd.before.json
    /\ cmd.before.privateKey # NoKey ) =>
    cmd.file = cmd.before

\* init has generated a configuration in this run.
Generated == variant = "init" /\ cmd.pc \in {"verify", "done", "serving"}
               /\ cmd.config # NoConfig

\* C26, as claimed: a configuration is generated only for a listed
\* environment, for mainnet or testnet, and for a budget that parses to a
\* positive number.
C26_ConfigInputsValidated ==
  Generated =>
    /\ cmd.environment \in ValidEnvironments
    /\ cmd.config.entry.network \in ValidNetworks
    /\ FGt(ParseFloat(cmd.config.entry.maxBudget), Num(0))

\* The servers of a config file that are not the x402-bazaar entry.
OtherServers(file) ==
  SelectSeq(file.servers, LAMBDA e : e.name # "x402-bazaar")

\* C27, as claimed: once writeConfig has written, the file holds exactly
\* one x402-bazaar server, the one just generated; and when the file
\* existed and parsed before, its other servers and its other top-level
\* members are those it had.
C27_WriteConfigMerges ==
  (Generated /\ cmd.wrote) =>
    /\ Cardinality({i \in DOMAIN cmd.file.servers :
                      cmd.file.servers[i].name = "x402-bazaar"}) = 1
    /\ \A i \in DOMAIN cmd.file.servers :
         cmd.file.servers[i].name = "x402-bazaar" =>
           cmd.file.servers[i].value = cmd.config.entry
    /\ (cmd.before.exists /\ cmd.before.json) =>
         /\ OtherServers(cmd.file) = OtherServers(cmd.before)
         /\ cmd.before.others \subseteq cmd.file.others

\* C30, as claimed: the MAX_BUDGET_USDC of a generated configuration passes
\* the prompt's validation, and a server started from it has a limit that
\* is a finite number, positive and at most 100.
C30_LimitAlwaysValid ==
  /\ Generated => ValidateBudget(cmd.config.entry.maxBudget)
  /\ (variant = "init" /\ cmd.pc = "serving") =>
       /\ IsFinite(MAX_BUDGET)
       /\ MAX_BUDGET.v > 0 /\ MAX_BUDGET.v <= MaxSessionBudget

============================================================================
